---- MODULE Spec2Model ----
(***************************************************************************)
(* Model of kraksat-receiver's request queue (app/sender/__init__.py) and  *)
(* line dispatcher (app/parser/outputparser.py).                           *)
(*                                                                         *)
(* Spec        the Sender: producer threads calling add_request, the       *)
(*             QtSenderWorker thread looping over process_request, and     *)
(*             callers of set_paused / set_skip_current.                   *)
(* LiveSpec    the Sender without transport failures and skips, with the   *)
(*             fairness a thread scheduler gives to runnable threads.      *)
(* ParserSpec  the parser worker: parse_file's loop over parse_line, with  *)
(*             the add_request calls parse_line makes.                     *)
(***************************************************************************)
EXTENDS Integers, Sequences, FiniteSets, TLC

\* ------------------------------------------------------------------ bounds
MaxRequests == 2      \* add_request calls made by the producer threads
MaxFailures == 1      \* api.create calls that raise
MaxControlCalls == 2  \* set_paused and set_skip_current calls made by other threads
MaxLines == 2         \* lines read by parse_file
MaxStarts == 2        \* ParserManager.parse_file calls
MaxFileLen == 3       \* characters appended to the raw data file

\* ----------------------------------------------------------------- threads
Free == "free"
Consumer == "consumer"
Producers == {"p1", "p2"}
Parser == "parser"
Callers == Producers \cup {Parser}

VARIABLES
  id,                 \* Sender.id
  queue,              \* Sender.queue
  paused,             \* Sender.paused
  skip_current,       \* Sender.skip_current
  lock,               \* owner of Sender.lock
  pause_lock,         \* owner of Sender.pause_lock
  not_empty,          \* threads waiting on Condition not_empty
  unpaused,           \* threads waiting on Condition unpaused
  cpc,                \* position of the thread in process_request
  request_data,       \* process_request's local request_data
  apc,                \* position of each caller in add_request
  args,               \* add_request's arguments, per caller
  new_request,        \* add_request's local request_data, per caller
  lpc,                \* position of the parser thread in parse_file/parse_line
  line,               \* parse_line's line
  parser_i,           \* parse_line's loop index over self._parsers
  is_terminated,      \* BaseOutputParser.is_terminated
  \* what the program did, in order (observers, transport, logger)
  enqueued,           \* requests appended to the queue
  popped,             \* requests popped
  sent,               \* api.create calls
  skipped,            \* ids whose retry loop ended by the skip branch
  addedLog,           \* on_request_added
  processingLog,      \* on_request_processing
  processedLog,       \* on_request_processed
  callbackLog,        \* request_data.callback()
  errorLog,           \* on_error
  retryLog,           \* the consumer's own set_paused(True) calls
  pausedLog,          \* on_paused
  skipLog,            \* set_skip_current calls
  pauseCalls,         \* number of outside set_paused calls
  lines,              \* lines handed to parse_line
  canCalls,           \* can_parse calls
  parseCalls,         \* parse calls
  parsedLog,          \* on_line_parsed
  failedLog,          \* on_line_parse_failed
  raised,             \* ParseErrors that left parse_line
  logged,             \* logger names parse_file logged an error with
  \* the ParserManager, its worker threads and the file they follow
  worker,             \* ParserManager.worker: 0 for None, else an index of workers
  workers,            \* the QtOutputParserWorker objects created so far
  terminated_by_user, \* ParserManager.terminated_by_user
  file,               \* content of the raw data file
  finished,           \* finished signals not yet delivered to the manager
  starts,             \* number of ParserManager.parse_file calls
  last_start,         \* the last ParserManager.parse_file call and how it ended
  causeLog            \* what _on_parser_terminated logged, per finished signal

senderVars == <<id, queue, paused, skip_current, lock, pause_lock, not_empty,
                unpaused, cpc, request_data>>
callerVars == <<apc, args, new_request>>
parserVars == <<lpc, line, parser_i, is_terminated>>
senderLogs == <<enqueued, popped, sent, skipped, addedLog, processingLog,
                processedLog, callbackLog, errorLog, retryLog, pausedLog,
                skipLog, pauseCalls>>
parserLogs == <<lines, canCalls, parseCalls, parsedLog, failedLog, raised, logged>>
managerVars == <<worker, workers, terminated_by_user, file, finished, starts,
                 last_start, causeLog>>
programVars == <<senderVars, callerVars, parserVars, senderLogs, parserLogs>>
vars == <<senderVars, callerVars, parserVars, senderLogs, parserLogs, managerVars>>

\* ---------------------------------------------------------------- requests
\* RequestData = namedtuple('RequestData', 'id, module, url, data, files, callback')
RequestData(i, module, url, data, files, callback) ==
  [id |-> i, module |-> module, url |-> url, data |-> data, files |-> files,
   callback |-> callback]

\* data: the line the record was parsed from (0: not from a line) and its timestamp
NoData == [body |-> 0, timestamp |-> "absent"]
NoLine == [can |-> {}, result |-> "empty"]
NoStart == [path |-> "", busy |-> FALSE, raised |-> "None", worker |-> 0]
NoRequest == RequestData(0, "", "", NoData, "None", FALSE)
NoArgs == [module |-> "", url |-> "", data |-> NoData, files |-> "None",
           append_timestamp |-> FALSE, callback |-> FALSE]

\* What each producer thread calls add_request with: one leaves the timestamp to
\* add_request and passes a callback, the other passes files and its own timestamp.
CallArgs(p) ==
  IF p = "p1"
  THEN [module |-> "gui", url |-> "/status",
        data |-> [body |-> 0, timestamp |-> "absent"],
        files |-> "None", append_timestamp |-> TRUE, callback |-> TRUE]
  ELSE [module |-> "gui", url |-> "/photo",
        data |-> [body |-> 0, timestamp |-> "caller"],
        files |-> "img", append_timestamp |-> FALSE, callback |-> FALSE]

\* add_request, lines 58-59: data['timestamp'] = api.encode_datetime(utcnow())
StampData(a) ==
  IF a.append_timestamp THEN [a.data EXCEPT !.timestamp = "utcnow"] ELSE a.data

\* self.id += 1
NextIdSame(i) == i
NextId(i) == i + 1

\* self.queue.popleft()
PopRight(q) == [item |-> q[Len(q)], rest |-> SubSeq(q, 1, Len(q) - 1)]
PopLeft(q) == [item |-> Head(q), rest |-> Tail(q)]

\* Condition.notify(): wakes one waiting thread, if there is one
NotifyLost(waiters) == {waiters}
Notify(waiters) ==
  IF waiters = {} THEN {{}} ELSE {waiters \ {t} : t \in waiters}

Calls == Len(enqueued) + Cardinality({p \in Callers : apc[p] \in {"acquire", "append"}})
Failures == Cardinality({k \in 1..Len(sent) : ~sent[k].ok})
ControlCalls == pauseCalls + Len(skipLog)

\* The request being processed: popped, and its on_request_processed not yet emitted.
InFlight ==
  IF cpc \in {"pause_acquire", "check_paused", "unpaused_wait", "skip_acquire",
              "check_skip", "create", "error_pause", "processed"}
  THEN request_data.id ELSE 0

\* -------------------------------------------------------------------- Init
Init ==
  /\ id = 1
  /\ queue = <<>>
  /\ paused = FALSE
  /\ skip_current = FALSE
  /\ lock = Free
  /\ pause_lock = Free
  /\ not_empty = {}
  /\ unpaused = {}
  /\ cpc = "start"
  /\ request_data = NoRequest
  /\ apc = [p \in Callers |-> "idle"]
  /\ args = [p \in Callers |-> NoArgs]
  /\ new_request = [p \in Callers |-> NoRequest]
  /\ lpc = "idle"
  /\ line = NoLine
  /\ parser_i = 0
  /\ is_terminated = FALSE
  /\ enqueued = <<>>
  /\ popped = <<>>
  /\ sent = <<>>
  /\ skipped = <<>>
  /\ addedLog = <<>>
  /\ processingLog = <<>>
  /\ processedLog = <<>>
  /\ callbackLog = <<>>
  /\ errorLog = <<>>
  /\ retryLog = <<>>
  /\ pausedLog = <<>>
  /\ skipLog = <<>>
  /\ pauseCalls = 0
  /\ lines = <<>>
  /\ canCalls = <<>>
  /\ parseCalls = <<>>
  /\ parsedLog = <<>>
  /\ failedLog = <<>>
  /\ raised = <<>>
  /\ logged = <<>>
  /\ worker = 0
  /\ workers = <<>>
  /\ terminated_by_user = FALSE
  /\ file = <<>>
  /\ finished = <<>>
  /\ starts = 0
  /\ last_start = NoStart
  /\ causeLog = <<>>

\* ------------------------------------------------------------- add_request
\* add_request is entered by thread p with arguments a (lines 44-59)
add_request(p, a) ==
  /\ args' = [args EXCEPT ![p] = [a EXCEPT !.data = StampData(a)]]
  /\ apc' = [apc EXCEPT ![p] = "acquire"]

\* A producer thread calls add_request.
AddCall(p) ==
  /\ apc[p] = "idle"
  /\ Calls < MaxRequests
  /\ add_request(p, CallArgs(p))
  /\ UNCHANGED managerVars
  /\ UNCHANGED <<senderVars, new_request, parserVars, senderLogs, parserLogs>>

\* with self.lock: (line 61)
AddAcquire(p) ==
  /\ apc[p] = "acquire"
  /\ lock = Free
  /\ lock' = p
  /\ apc' = [apc EXCEPT ![p] = "append"]
  /\ UNCHANGED managerVars
  /\ UNCHANGED <<id, queue, paused, skip_current, pause_lock, not_empty, unpaused,
                 cpc, request_data, args, new_request, parserVars, senderLogs,
                 parserLogs>>

\* lines 62-66, and the release of self.lock at the end of the with block
AddAppend(p) ==
  /\ apc[p] = "append"
  /\ lock = p
  /\ LET r == RequestData(id, args[p].module, args[p].url, args[p].data,
                          args[p].files, args[p].callback)
     IN /\ new_request' = [new_request EXCEPT ![p] = r]
        /\ queue' = Append(queue, r)
        /\ enqueued' = Append(enqueued, r)
  /\ id' = NextId(id)
  /\ not_empty' \in Notify(not_empty)
  /\ lock' = Free
  /\ apc' = [apc EXCEPT ![p] = "added"]
  /\ UNCHANGED managerVars
  /\ UNCHANGED <<paused, skip_current, pause_lock, unpaused, cpc, request_data,
                 args, parserVars, popped, sent, skipped, addedLog, processingLog,
                 processedLog, callbackLog, errorLog, retryLog, pausedLog, skipLog,
                 pauseCalls, parserLogs>>

\* self.on_request_added(request_data) (line 67), and the return to the caller
AddNotify(p) ==
  /\ apc[p] = "added"
  /\ addedLog' = Append(addedLog, new_request[p].id)
  /\ apc' = [apc EXCEPT ![p] = "idle"]
  /\ args' = [args EXCEPT ![p] = NoArgs]
  /\ new_request' = [new_request EXCEPT ![p] = NoRequest]
  /\ lpc' = IF p = Parser THEN "loop" ELSE lpc
  /\ UNCHANGED managerVars
  /\ UNCHANGED <<senderVars, line, parser_i, is_terminated,
                 enqueued, popped, sent, skipped, processingLog, processedLog,
                 callbackLog, errorLog, retryLog, pausedLog, skipLog, pauseCalls, parserLogs>>

\* --------------------------------------------------------- process_request
\* QtSenderWorker.run calls process_request (lines 217-219); with self.lock: (71)
ProcStart ==
  /\ cpc = "start"
  /\ lock = Free
  /\ lock' = Consumer
  /\ cpc' = "check_queue"
  /\ UNCHANGED managerVars
  /\ UNCHANGED <<id, queue, paused, skip_current, pause_lock, not_empty, unpaused,
                 request_data, callerVars, parserVars, senderLogs, parserLogs>>

\* while not len(self.queue): self.not_empty.wait() (lines 72-73): wait releases
\* the lock and blocks the thread until it is notified
ProcWaitNotEmpty ==
  /\ cpc = "check_queue"
  /\ lock = Consumer
  /\ Len(queue) = 0
  /\ not_empty' = not_empty \cup {Consumer}
  /\ lock' = Free
  /\ cpc' = "not_empty_wait"
  /\ UNCHANGED managerVars
  /\ UNCHANGED <<id, queue, paused, skip_current, pause_lock, unpaused,
                 request_data, callerVars, parserVars, senderLogs, parserLogs>>

\* wait() returns once notified, with the lock acquired again
ProcWakeNotEmpty ==
  /\ cpc = "not_empty_wait"
  /\ Consumer \notin not_empty
  /\ lock = Free
  /\ lock' = Consumer
  /\ cpc' = "check_queue"
  /\ UNCHANGED managerVars
  /\ UNCHANGED <<id, queue, paused, skip_current, pause_lock, not_empty, unpaused,
                 request_data, callerVars, parserVars, senderLogs, parserLogs>>

\* the lock the thread holds when the with block of lines 71-74 is left
LockAfterPopHeld == Consumer
LockAfterPop == Free

\* request_data = self.queue.popleft() (line 74); repeat = True (line 76)
ProcPop ==
  /\ cpc = "check_queue"
  /\ lock = Consumer
  /\ Len(queue) > 0
  /\ request_data' = PopLeft(queue).item
  /\ queue' = PopLeft(queue).rest
  /\ popped' = Append(popped, PopLeft(queue).item.id)
  /\ lock' = LockAfterPop
  /\ cpc' = "pause_acquire"
  /\ UNCHANGED managerVars
  /\ UNCHANGED <<id, paused, skip_current, pause_lock, not_empty, unpaused,
                 callerVars, parserVars, enqueued, sent, skipped, addedLog,
                 processingLog, processedLog, callbackLog, errorLog, retryLog, pausedLog,
                 skipLog, pauseCalls, parserLogs>>

\* while repeat: repeat = False; with self.pause_lock: (lines 77-80)
ProcPauseAcquire ==
  /\ cpc = "pause_acquire"
  /\ pause_lock = Free
  /\ pause_lock' = Consumer
  /\ cpc' = "check_paused"
  /\ UNCHANGED managerVars
  /\ UNCHANGED <<id, queue, paused, skip_current, lock, not_empty, unpaused,
                 request_data, callerVars, parserVars, senderLogs, parserLogs>>

\* if self.paused: self.unpaused.wait() (lines 81-82)
ProcWaitUnpaused ==
  /\ cpc = "check_paused"
  /\ pause_lock = Consumer
  /\ paused
  /\ unpaused' = unpaused \cup {Consumer}
  /\ pause_lock' = Free
  /\ cpc' = "unpaused_wait"
  /\ UNCHANGED managerVars
  /\ UNCHANGED <<id, queue, paused, skip_current, lock, not_empty,
                 request_data, callerVars, parserVars, senderLogs, parserLogs>>

\* not paused: the with block of line 80 is left
ProcNotPaused ==
  /\ cpc = "check_paused"
  /\ pause_lock = Consumer
  /\ ~paused
  /\ pause_lock' = Free
  /\ cpc' = "skip_acquire"
  /\ UNCHANGED managerVars
  /\ UNCHANGED <<id, queue, paused, skip_current, lock, not_empty, unpaused,
                 request_data, callerVars, parserVars, senderLogs, parserLogs>>

\* wait() returns once notified: it takes pause_lock again, and the with block
\* is left at once (the flag is not read again)
ProcWakeUnpaused ==
  /\ cpc = "unpaused_wait"
  /\ Consumer \notin unpaused
  /\ pause_lock = Free
  /\ cpc' = "skip_acquire"
  /\ UNCHANGED managerVars
  /\ UNCHANGED <<id, queue, paused, skip_current, lock, pause_lock, not_empty,
                 unpaused, request_data, callerVars, parserVars, senderLogs,
                 parserLogs>>

\* with self.lock: (line 83); self.lock is an RLock
ProcSkipAcquire ==
  /\ cpc = "skip_acquire"
  /\ lock \in {Free, Consumer}
  /\ lock' = Consumer
  /\ cpc' = "check_skip"
  /\ UNCHANGED managerVars
  /\ UNCHANGED <<id, queue, paused, skip_current, pause_lock, not_empty, unpaused,
                 request_data, callerVars, parserVars, senderLogs, parserLogs>>

\* where break (line 86) takes the thread: to line 104
AfterSkipReturn == "start"
AfterSkip == "processed"

\* if self.skip_current: self.skip_current = False; break (lines 84-86)
ProcSkip ==
  /\ cpc = "check_skip"
  /\ lock = Consumer
  /\ skip_current
  /\ skip_current' = FALSE
  /\ skipped' = Append(skipped, request_data.id)
  /\ lock' = LockAfterPop
  /\ cpc' = AfterSkip
  /\ UNCHANGED managerVars
  /\ UNCHANGED <<id, queue, paused, pause_lock, not_empty, unpaused, request_data,
                 callerVars, parserVars, enqueued, popped, sent, addedLog,
                 processingLog, processedLog, callbackLog, errorLog, retryLog, pausedLog,
                 skipLog, pauseCalls, parserLogs>>

\* no skip: the with block of line 83 is left, and
\* self.on_request_processing(request_data) (line 88)
ProcNoSkip ==
  /\ cpc = "check_skip"
  /\ lock = Consumer
  /\ ~skip_current
  /\ lock' = LockAfterPop
  /\ processingLog' = Append(processingLog, request_data.id)
  /\ cpc' = "create"
  /\ UNCHANGED managerVars
  /\ UNCHANGED <<id, queue, paused, skip_current, pause_lock, not_empty, unpaused,
                 request_data, callerVars, parserVars, enqueued, popped,
                 sent, skipped, addedLog, processedLog, callbackLog, errorLog, retryLog,
                 pausedLog, skipLog, pauseCalls, parserLogs>>

\* what api.create is called with (lines 91-93)
Submission(r, ok) ==
  [id |-> r.id, url |-> r.url, data |-> r.data, files |-> r.files, ok |-> ok]

\* where the thread goes when api.create raised: the except block of lines 94-102
AfterFailureGiveUp == "processed"
AfterFailureNoPause == "pause_acquire"
AfterFailure == "error_pause"

\* self.api.create(...) returns (lines 91-93)
ProcCreateOk ==
  /\ cpc = "create"
  /\ sent' = Append(sent, Submission(request_data, TRUE))
  /\ cpc' = "processed"
  /\ UNCHANGED managerVars
  /\ UNCHANGED <<id, queue, paused, skip_current, lock, pause_lock, not_empty,
                 unpaused, request_data, callerVars, parserVars, enqueued, popped,
                 skipped, addedLog, processingLog, processedLog, callbackLog,
                 errorLog, retryLog, pausedLog, skipLog, pauseCalls, parserLogs>>

\* self.api.create(...) raises RequestException or APIError (lines 94-99):
\* the error is logged and on_error is notified
ProcCreateFail ==
  /\ cpc = "create"
  /\ Failures < MaxFailures
  /\ sent' = Append(sent, Submission(request_data, FALSE))
  /\ errorLog' = Append(errorLog, request_data.id)
  /\ cpc' = AfterFailure
  /\ UNCHANGED managerVars
  /\ UNCHANGED <<id, queue, paused, skip_current, lock, pause_lock, not_empty,
                 unpaused, request_data, callerVars, parserVars, enqueued, popped,
                 skipped, addedLog, processingLog, processedLog, callbackLog,
                 retryLog, pausedLog, skipLog, pauseCalls, parserLogs>>

\* ------------------------------------------------------------- set_paused
\* if not paused: self.unpaused.notify() (lines 115-116)
NotifiesWhenPausing(b) == b
NotifiesUnpaused(b) == ~b

\* set_paused(b), lines 113-117: under pause_lock, set the flag, notify when
\* unpausing, and on_paused(b)
set_paused(b) ==
  /\ pause_lock = Free
  /\ paused' = b
  /\ IF NotifiesUnpaused(b) THEN unpaused' \in Notify(unpaused)
     ELSE unpaused' = unpaused
  /\ pausedLog' = Append(pausedLog, b)

\* self.set_paused(True); repeat = True (lines 100-102)
ProcErrorPause ==
  /\ cpc = "error_pause"
  /\ set_paused(TRUE)
  /\ retryLog' = Append(retryLog, [id |-> request_data.id, np |-> Len(pausedLog) + 1])
  /\ cpc' = "pause_acquire"
  /\ UNCHANGED managerVars
  /\ UNCHANGED <<id, queue, skip_current, lock, pause_lock, not_empty,
                 request_data, callerVars, parserVars, enqueued, popped, sent,
                 skipped, addedLog, processingLog, processedLog, callbackLog,
                 errorLog, skipLog, pauseCalls, parserLogs>>

\* self.on_request_processed(request_data) (line 104)
ProcProcessed ==
  /\ cpc = "processed"
  /\ processedLog' = Append(processedLog, request_data.id)
  /\ cpc' = "callback"
  /\ UNCHANGED managerVars
  /\ UNCHANGED <<id, queue, paused, skip_current, lock, pause_lock, not_empty,
                 unpaused, request_data, callerVars, parserVars, enqueued, popped,
                 sent, skipped, addedLog, processingLog, callbackLog, errorLog, retryLog,
                 pausedLog, skipLog, pauseCalls, parserLogs>>

\* if request_data.callback: request_data.callback() (lines 105-106), and the
\* return to QtSenderWorker.run's loop
ProcCallback ==
  /\ cpc = "callback"
  /\ callbackLog' = IF request_data.callback
                    THEN Append(callbackLog, request_data.id) ELSE callbackLog
  /\ request_data' = NoRequest
  /\ cpc' = "start"
  /\ UNCHANGED managerVars
  /\ UNCHANGED <<id, queue, paused, skip_current, lock, pause_lock, not_empty,
                 unpaused, callerVars, parserVars, enqueued, popped, sent, skipped,
                 addedLog, processingLog, processedLog, errorLog, retryLog, pausedLog,
                 skipLog, pauseCalls, parserLogs>>

\* A thread other than the consumer calls set_paused(b).
SetPaused(b) ==
  /\ ControlCalls < MaxControlCalls
  /\ set_paused(b)
  /\ pauseCalls' = pauseCalls + 1
  /\ UNCHANGED managerVars
  /\ UNCHANGED <<id, queue, skip_current, lock, pause_lock, not_empty, cpc,
                 request_data, callerVars, parserVars, enqueued, popped, sent,
                 skipped, addedLog, processingLog, processedLog, callbackLog,
                 errorLog, retryLog, skipLog, parserLogs>>

\* set_skip_current, lines 121-122
SetSkipCurrent ==
  /\ ControlCalls < MaxControlCalls
  /\ lock = Free
  /\ skip_current' = TRUE
  /\ skipLog' = Append(skipLog, [current |-> InFlight, ns |-> Len(sent)])
  /\ UNCHANGED managerVars
  /\ UNCHANGED <<id, queue, paused, lock, pause_lock, not_empty, unpaused, cpc,
                 request_data, callerVars, parserVars, enqueued, popped, sent,
                 skipped, addedLog, processingLog, processedLog, callbackLog,
                 errorLog, retryLog, pausedLog, pauseCalls, parserLogs>>

\* ------------------------------------------------------ parse_file, parse_line
\* PARSERS = [GPSParser, TelemetryParser, KundtParser] (line 14); OutputParser
\* registers one instance of each, in this order (line 135)
PARSERSTelemetryFirst == <<"TelemetryParser", "GPSParser", "KundtParser">>
PARSERS == <<"GPSParser", "TelemetryParser", "KundtParser">>

\* parser.url of each registered parser
ParserUrl(i) == <<"/gps", "/telemetry", "/kundt">>[i]

\* A line, as far as parse_line can tell lines apart: the parsers whose
\* can_parse returns a truthy message id for it, and what parse makes of it.
Lines == [can : SUBSET (1..Len(PARSERS)), result : {"data", "empty", "raise"}]

\* parser.can_parse(line): a message id, or a falsy value
can_parse(i, l) == i \in l.can

\* ParseError(message): no parser_name until parse_line stamps one
ParseError(message) == [message |-> message, parser_name |-> "None"]

\* raise ParseError('Line was not parsed by any parser') (line 98)
UnparsedErrorLastParser ==
  [ParseError("Line was not parsed by any parser") EXCEPT
     !.parser_name = PARSERS[Len(PARSERS)]]
UnparsedError == ParseError("Line was not parsed by any parser")

\* e.parser_name = parser_name (line 90)
StampNone(e, parser_name) == e
StampParserName(e, parser_name) == [e EXCEPT !.parser_name = parser_name]

\* if data: (line 92): the record parse returned is not empty
HasDataAlways(l) == TRUE
HasData(l) == l.result = "data"

\* the line number parse_line is working on
LineNo == Len(lines)

\* QtOutputParserWorker.run calls parse_file, which opens the file (lines 42-43)
ParseFileOpen ==
  /\ lpc = "idle"
  /\ lpc' = "loop"
  /\ UNCHANGED managerVars
  /\ UNCHANGED <<senderVars, callerVars, line, parser_i, is_terminated, senderLogs,
                 parserLogs>>

\* while not self.is_terminated: (line 44)
ParseFileLoop ==
  /\ lpc = "loop"
  /\ lpc' = IF is_terminated THEN "done" ELSE "readline"
  /\ UNCHANGED managerVars
  /\ UNCHANGED <<senderVars, callerVars, line, parser_i, is_terminated, senderLogs,
                 parserLogs>>

\* line = f.readline() gives a non-empty line (lines 45-56), and parse_line(line)
\* is entered (line 58)
ParseFileReadLine ==
  /\ lpc = "readline"
  /\ Len(lines) < MaxLines
  /\ \E l \in Lines :
       /\ line' = l
       /\ lines' = Append(lines, l)
  /\ parser_i' = 1
  /\ lpc' = "can_parse"
  /\ UNCHANGED managerVars
  /\ UNCHANGED <<senderVars, callerVars, is_terminated, senderLogs, canCalls,
                 parseCalls, parsedLog, failedLog, raised, logged>>

\* for parser in self._parsers: msg_id = parser.can_parse(line) (lines 78-80),
\* and, when the parsers are exhausted, the raise of line 98
ParseLineCanParse ==
  /\ lpc = "can_parse"
  /\ canCalls' = Append(canCalls, [line |-> LineNo, parser |-> parser_i])
  /\ IF can_parse(parser_i, line)
     THEN /\ lpc' = "parse"
          /\ UNCHANGED <<parser_i, raised>>
     ELSE IF parser_i < Len(PARSERS)
     THEN /\ parser_i' = parser_i + 1
          /\ UNCHANGED <<lpc, raised>>
     ELSE /\ raised' = Append(raised, [line |-> LineNo, error |-> UnparsedError])
          /\ lpc' = "except"
          /\ UNCHANGED parser_i
  /\ UNCHANGED managerVars
  /\ UNCHANGED <<senderVars, callerVars, line, is_terminated, senderLogs, lines,
                 parseCalls, parsedLog, failedLog, logged>>

\* data = parser.parse(output_line) returns, self.on_line_parsed(output_line)
\* (lines 81-86), and lines 92-96: a record that is not empty gets the line's
\* timestamp and is handed to sender.add_request
ParseLineParsed ==
  /\ lpc = "parse"
  /\ line.result \in {"data", "empty"}
  /\ parseCalls' = Append(parseCalls, [line |-> LineNo, parser |-> parser_i])
  /\ parsedLog' = Append(parsedLog, LineNo)
  /\ IF HasData(line)
     THEN /\ add_request(Parser,
                [module |-> PARSERS[parser_i], url |-> ParserUrl(parser_i),
                 data |-> [body |-> LineNo, timestamp |-> "line"],
                 files |-> "None", append_timestamp |-> FALSE, callback |-> FALSE])
          /\ lpc' = "add_request"
     ELSE /\ lpc' = "loop"
          /\ UNCHANGED <<apc, args>>
  /\ UNCHANGED managerVars
  /\ UNCHANGED <<senderVars, new_request, line, parser_i, is_terminated, senderLogs,
                 lines, canCalls, failedLog, raised, logged>>

\* parser.parse(output_line) raises a ParseError (lines 87-91):
\* on_line_parse_failed, the error gets the parser's name and is raised again
ParseLineFailed ==
  /\ lpc = "parse"
  /\ line.result = "raise"
  /\ parseCalls' = Append(parseCalls, [line |-> LineNo, parser |-> parser_i])
  /\ failedLog' = Append(failedLog, LineNo)
  /\ raised' = Append(raised,
        [line |-> LineNo,
         error |-> StampParserName(ParseError("invalid"), PARSERS[parser_i])])
  /\ lpc' = "except"
  /\ UNCHANGED managerVars
  /\ UNCHANGED <<senderVars, callerVars, line, parser_i, is_terminated, senderLogs,
                 lines, canCalls, parsedLog, logged>>

\* except ParseError as e: the error is logged with the logger named after
\* e.parser_name, or with self.logger (lines 59-63)
ParseFileExcept ==
  /\ lpc = "except"
  /\ LET e == raised[Len(raised)].error
     IN logged' = Append(logged, IF e.parser_name # "None" THEN e.parser_name
                                 ELSE "Parser")
  /\ lpc' = "loop"
  /\ UNCHANGED managerVars
  /\ UNCHANGED <<senderVars, callerVars, line, parser_i, is_terminated, senderLogs,
                 lines, canCalls, parseCalls, parsedLog, failedLog, raised>>

\* mark_terminated (lines 100-107), called from another thread
MarkTerminated ==
  /\ lpc \notin {"idle", "done"}
  /\ ~is_terminated
  /\ is_terminated' = TRUE
  /\ UNCHANGED managerVars
  /\ UNCHANGED <<senderVars, callerVars, lpc, line, parser_i, senderLogs, parserLogs>>

Next ==
  \/ \E p \in Producers : AddCall(p)
  \/ \E p \in Producers : AddAcquire(p)
  \/ \E p \in Producers : AddAppend(p)
  \/ \E p \in Producers : AddNotify(p)
  \/ ProcStart \/ ProcWaitNotEmpty \/ ProcWakeNotEmpty \/ ProcPop
  \/ ProcPauseAcquire \/ ProcWaitUnpaused \/ ProcNotPaused \/ ProcWakeUnpaused
  \/ ProcSkipAcquire \/ ProcSkip \/ ProcNoSkip
  \/ ProcCreateOk \/ ProcCreateFail \/ ProcErrorPause
  \/ ProcProcessed \/ ProcCallback
  \/ \E b \in BOOLEAN : SetPaused(b)
  \/ SetSkipCurrent

Spec == Init /\ [][Next]_vars

\* The Sender when the transport never fails and nothing is skipped.
NextLive ==
  \/ \E p \in Producers : AddCall(p)
  \/ \E p \in Producers : AddAcquire(p)
  \/ \E p \in Producers : AddAppend(p)
  \/ \E p \in Producers : AddNotify(p)
  \/ ProcStart \/ ProcWaitNotEmpty \/ ProcWakeNotEmpty \/ ProcPop
  \/ ProcPauseAcquire \/ ProcWaitUnpaused \/ ProcNotPaused \/ ProcWakeUnpaused
  \/ ProcSkipAcquire \/ ProcNoSkip
  \/ ProcCreateOk
  \/ ProcProcessed \/ ProcCallback
  \/ \E b \in BOOLEAN : SetPaused(b)

\* A thread that can run does run: the consumer thread, and each producer once
\* it is inside add_request.
ConsumerLiveStep ==
  \/ ProcStart \/ ProcWaitNotEmpty \/ ProcWakeNotEmpty \/ ProcPop
  \/ ProcPauseAcquire \/ ProcWaitUnpaused \/ ProcNotPaused \/ ProcWakeUnpaused
  \/ ProcSkipAcquire \/ ProcNoSkip
  \/ ProcCreateOk
  \/ ProcProcessed \/ ProcCallback

ProducerStep(p) == AddAcquire(p) \/ AddAppend(p) \/ AddNotify(p)

LiveSpec ==
  /\ Init
  /\ [][NextLive]_vars
  /\ WF_vars(ConsumerLiveStep)
  /\ \A p \in Producers : WF_vars(ProducerStep(p))

\* The parser worker thread.
ParserNext ==
  \/ ParseFileOpen \/ ParseFileLoop \/ ParseFileReadLine
  \/ ParseLineCanParse \/ ParseLineParsed \/ ParseLineFailed
  \/ AddAcquire(Parser) \/ AddAppend(Parser) \/ AddNotify(Parser)
  \/ ParseFileExcept
  \/ MarkTerminated

ParserSpec == Init /\ [][ParserNext]_vars

\* ------------------------------------------- ParserManager and its workers
\* paths handed to ParserManager.parse_file: the raw data file, and a path at
\* which there is no file
Paths == {"data", "missing"}

\* what is appended to the raw data file: a character of a line, or the
\* line terminator
EOL == "\r\n"
Chars == {"a", EOL}

\* the lines for which parse_line raises a ParseError: no parser accepts the
\* one-character line
BadLines == {<<"a">>}

\* Path(path).resolve() (line 263): raises FileNotFoundError for a missing path
\* when it resolves strictly (Python 3.5), returns the path when it does not
\* (Python 3.6 and later)
resolve(path) ==
  IF path = "missing" THEN {"FileNotFoundError", "resolved"} ELSE {"resolved"}

\* os.open(filename, os.O_RDONLY | os.O_NONBLOCK) (line 42): fails with an
\* OSError for a missing path; a file that is there may be unreadable
CanOpen(path) == IF path = "missing" THEN {FALSE} ELSE BOOLEAN

\* f.readline() (line 45) at offset pos: the characters up to and including
\* the next line terminator, or what is there when no terminator follows
readline(f, pos) ==
  LET ends == {k \in (pos + 1)..Len(f) : f[k] = EOL}
  IN IF ends = {}
     THEN SubSeq(f, pos + 1, Len(f))
     ELSE SubSeq(f, pos + 1, CHOOSE k \in ends : \A j \in ends : k <= j)

\* line.rstrip('\r\n') (line 50)
RECURSIVE rstrip(_)
rstrip(l) ==
  IF l # <<>> /\ l[Len(l)] = EOL THEN rstrip(SubSeq(l, 1, Len(l) - 1)) ELSE l

\* QtOutputParserWorker(self.path, self.sender, self.parent) (line 272, and
\* BaseOutputParser.__init__ lines 24-33)
QtOutputParserWorker(path) ==
  [path |-> path, pc |-> "start", is_terminated |-> FALSE, opened |-> FALSE,
   pos |-> 0, dispatched |-> <<>>]

\* QThread.isRunning() of worker w
isRunning(w) == w.pc # "finished"

\* ParserManager.is_running (lines 195-201)
is_running_never == FALSE
is_running == worker # 0 /\ isRunning(workers[worker])

\* while not self.is_terminated: (line 44)
LoopExitNever(w) == FALSE
LoopExit(w) == w.is_terminated

\* sleep(0.05); continue (lines 46-49)
AfterEmptyReadReturn == "finished"
AfterEmptyRead == "sleep"

\* except ParseError: the error is logged and the loop goes on (lines 59-63)
AfterParseErrorRaise == "finished"
AfterParseError == "loop"

\* ParserManager.parse_file(path) (lines 249-278)
ManagerParseFile(path) ==
  /\ starts < MaxStarts
  /\ starts' = starts + 1
  /\ IF is_running
     THEN /\ last_start' = [path |-> path, busy |-> TRUE,
                            raised |-> "RuntimeError", worker |-> 0]
          /\ UNCHANGED <<worker, workers>>
     ELSE \E r \in resolve(path) :
            IF r = "FileNotFoundError"
            THEN /\ last_start' = [path |-> path, busy |-> FALSE,
                                   raised |-> "None", worker |-> 0]
                 /\ UNCHANGED <<worker, workers>>
            ELSE /\ workers' = Append(workers, QtOutputParserWorker(path))
                 /\ worker' = Len(workers) + 1
                 /\ last_start' = [path |-> path, busy |-> FALSE,
                                   raised |-> "None", worker |-> Len(workers) + 1]
  /\ UNCHANGED <<terminated_by_user, file, finished, causeLog>>
  /\ UNCHANGED programVars

\* ParserManager.terminate (lines 203-210) and mark_terminated (lines 100-107)
ManagerTerminate ==
  /\ IF is_running
     THEN /\ terminated_by_user' = TRUE
          /\ workers' = [workers EXCEPT ![worker].is_terminated = TRUE]
     ELSE UNCHANGED <<terminated_by_user, workers>>
  /\ UNCHANGED <<worker, file, finished, starts, last_start, causeLog>>
  /\ UNCHANGED programVars

\* ParserManager.wait (lines 212-228) returns True at once when no worker is
\* running, and True or False from QThread.wait otherwise; it changes nothing.
ManagerWait ==
  /\ \E returned \in (IF is_running THEN BOOLEAN ELSE {TRUE}) : returned \in BOOLEAN
  /\ UNCHANGED managerVars
  /\ UNCHANGED programVars

\* The thread of worker i starts: started is emitted, run (lines 163-167) calls
\* parse_file, which opens the file (lines 42-43); an OSError is caught and
\* logged by run, which returns, and finished is emitted.
WorkerRun(i) ==
  /\ workers[i].pc = "start"
  /\ \E ok \in CanOpen(workers[i].path) :
       IF ok
       THEN /\ workers' = [workers EXCEPT ![i].pc = "loop", ![i].opened = TRUE]
            /\ UNCHANGED finished
       ELSE /\ workers' = [workers EXCEPT ![i].pc = "finished"]
            /\ finished' = Append(finished, i)
  /\ UNCHANGED <<worker, terminated_by_user, file, starts, last_start, causeLog>>
  /\ UNCHANGED programVars

\* while not self.is_terminated: (line 44); when the flag is set parse_file and
\* run return and finished is emitted
WorkerLoop(i) ==
  /\ workers[i].pc = "loop"
  /\ IF LoopExit(workers[i])
     THEN /\ workers' = [workers EXCEPT ![i].pc = "finished"]
          /\ finished' = Append(finished, i)
     ELSE /\ workers' = [workers EXCEPT ![i].pc = "readline"]
          /\ UNCHANGED finished
  /\ UNCHANGED <<worker, terminated_by_user, file, starts, last_start, causeLog>>
  /\ UNCHANGED programVars

\* lines 45-58: readline; nothing read: sleep and continue; only line
\* terminators read: warning and continue; else parse_line is called
WorkerReadLine(i) ==
  /\ workers[i].pc = "readline"
  /\ LET w == workers[i]
         l == readline(file, w.pos)
     IN IF l = <<>>
        THEN workers' = [workers EXCEPT ![i].pc = AfterEmptyRead]
        ELSE IF rstrip(l) = <<>>
        THEN workers' = [workers EXCEPT ![i].pc = "loop",
                                        ![i].pos = w.pos + Len(l)]
        ELSE workers' = [workers EXCEPT
               ![i].pc = "parse_line",
               ![i].pos = w.pos + Len(l),
               ![i].dispatched = Append(w.dispatched,
                                        [text |-> rstrip(l),
                                         late |-> w.is_terminated])]
  /\ UNCHANGED <<worker, terminated_by_user, file, finished, starts, last_start,
                 causeLog>>
  /\ UNCHANGED programVars

\* sleep(0.05) is over; continue (lines 48-49)
WorkerSleep(i) ==
  /\ workers[i].pc = "sleep"
  /\ workers' = [workers EXCEPT ![i].pc = "loop"]
  /\ UNCHANGED <<worker, terminated_by_user, file, finished, starts, last_start,
                 causeLog>>
  /\ UNCHANGED programVars

\* parse_line(line) returns, or raises a ParseError that parse_file catches and
\* logs (lines 56-63)
WorkerParseLine(i) ==
  /\ workers[i].pc = "parse_line"
  /\ LET w == workers[i]
     IN workers' = [workers EXCEPT
          ![i].pc = IF w.dispatched[Len(w.dispatched)].text \in BadLines
                    THEN AfterParseError ELSE "loop"]
  /\ UNCHANGED <<worker, terminated_by_user, file, finished, starts, last_start,
                 causeLog>>
  /\ UNCHANGED programVars

\* A finished signal reaches the manager: _on_parser_terminated (lines 230-234)
\* logs the cause and parser_terminated is emitted.
OnParserTerminated ==
  /\ finished # <<>>
  /\ causeLog' = Append(causeLog,
                        [worker |-> Head(finished),
                         cause |-> IF terminated_by_user THEN "user"
                                   ELSE "unexpected"])
  /\ finished' = Tail(finished)
  /\ UNCHANGED <<worker, workers, terminated_by_user, file, starts, last_start>>
  /\ UNCHANGED programVars

\* The probe's output is appended to the raw data file.
FileAppend(c) ==
  /\ Len(file) < MaxFileLen
  /\ file' = Append(file, c)
  /\ UNCHANGED <<worker, workers, terminated_by_user, finished, starts,
                 last_start, causeLog>>
  /\ UNCHANGED programVars

WorkerStep(i) ==
  \/ WorkerRun(i) \/ WorkerLoop(i) \/ WorkerReadLine(i) \/ WorkerSleep(i)
  \/ WorkerParseLine(i)

\* A ParserManager driven from one thread, its workers, and the writer of the file.
ManagerNext ==
  \/ \E path \in Paths : ManagerParseFile(path)
  \/ ManagerTerminate
  \/ ManagerWait
  \/ \E i \in 1..Len(workers) : WorkerRun(i)
  \/ \E i \in 1..Len(workers) : WorkerLoop(i)
  \/ \E i \in 1..Len(workers) : WorkerReadLine(i)
  \/ \E i \in 1..Len(workers) : WorkerSleep(i)
  \/ \E i \in 1..Len(workers) : WorkerParseLine(i)
  \/ OnParserTerminated
  \/ \E c \in Chars : FileAppend(c)

ManagerSpec == Init /\ [][ManagerNext]_vars

\* A worker thread that can run does run, and the manager's event loop
\* delivers the signals queued for it.
ManagerLiveSpec ==
  /\ Init
  /\ [][ManagerNext]_vars
  /\ \A i \in 1..MaxStarts : WF_vars(i <= Len(workers) /\ WorkerStep(i))
  /\ WF_vars(OnParserTerminated)

\* ------------------------------------------------------------------ claims
Range(f) == {f[k] : k \in 1..Len(f)}
Count(f, x) == Cardinality({k \in 1..Len(f) : f[k] = x})
Last(f) == f[Len(f)]
SentIds == {sent[k].id : k \in 1..Len(sent)}
SentOkIds == {sent[k].id : k \in {j \in 1..Len(sent) : sent[j].ok}}

\* C1: the requests get the ids 1, 2, 3, ... in the order they are appended, with
\* no gap and no reuse, whichever producer threads append them, and
\* process_request pops them in that order: the queue always holds exactly the
\* appended requests that were not popped yet, oldest first.
C1_IdsGapFreeAndFifo ==
  /\ \A k \in 1..Len(enqueued) : enqueued[k].id = k
  /\ \A k \in 1..Len(popped) : popped[k] = k
  /\ Len(popped) <= Len(enqueued)
  /\ queue = SubSeq(enqueued, Len(popped) + 1, Len(enqueued))
  /\ id = Len(enqueued) + 1

\* Both producer threads appended, the second thread first, and both requests
\* were popped.
C1_Witness ==
  /\ Len(popped) >= 2
  /\ enqueued[1].url = "/photo"
  /\ enqueued[2].url = "/status"

\* C2 (as claimed): once set_paused(True) has completed, and until
\* set_paused(False) is called, the consumer makes no call to api.create: no
\* step that submits a request is taken while the flag is set.
C2_NoSubmitWhilePaused ==
  [][Len(sent') > Len(sent) => ~paused]_vars

\* Every request appended so far was submitted once, successfully, in id order.
AllEnqueuedSubmitted ==
  /\ Len(sent) = Len(enqueued)
  /\ \A k \in 1..Len(sent) : sent[k].id = k /\ sent[k].ok

\* C3: with no transport failure, no skip and threads that run when they can:
\* if the queue stays unpaused from some point on (the last set_paused call was
\* set_paused(False)), every request enqueued, while paused or not, is eventually
\* submitted, in enqueue order.
C3_SubmittedAfterUnpause ==
  <>[](~paused) => <>[]AllEnqueuedSubmitted

\* Two requests are enqueued and none was submitted while the queue is paused.
C3_Witness ==
  /\ paused
  /\ Len(enqueued) >= 2
  /\ sent = <<>>

\* C4: what is submitted is the request as it was enqueued (same id, url, data
\* and files), also when it is submitted again after a failure; a submission
\* that failed is followed by a submission of the same request unless that
\* request was skipped; a later request is submitted only after every earlier
\* one succeeded or was skipped; and a request is reported processed only when
\* it was submitted successfully or skipped.
C4_RetrySameRequestInOrder ==
  /\ \A k \in 1..Len(sent) :
       /\ sent[k].id \in 1..Len(enqueued)
       /\ sent[k].url = enqueued[sent[k].id].url
       /\ sent[k].data = enqueued[sent[k].id].data
       /\ sent[k].files = enqueued[sent[k].id].files
  /\ \A k \in 1..(Len(sent) - 1) :
       IF sent[k].ok
       THEN sent[k + 1].id > sent[k].id
       ELSE \/ sent[k + 1].id = sent[k].id
            \/ sent[k + 1].id > sent[k].id /\ sent[k].id \in Range(skipped)
  /\ \A k \in 1..Len(sent) : \A i \in 1..(sent[k].id - 1) :
       i \in SentOkIds \/ i \in Range(skipped)
  /\ \A i \in Range(processedLog) : i \in SentOkIds \/ i \in Range(skipped)

\* A submission failed, the same request was submitted again and succeeded, and
\* the request enqueued after it was submitted next.
C4_Witness ==
  /\ Len(sent) >= 3
  /\ ~sent[1].ok /\ sent[2].ok /\ sent[2].id = sent[1].id
  /\ sent[3].id = sent[1].id + 1

\* C5 (as claimed): when set_skip_current is called while request K is being
\* processed, K is not submitted after that call, and every later request that
\* was processed was submitted.
C5_SkipHitsCurrentRequest ==
  \A j \in 1..Len(skipLog) :
    LET K == skipLog[j].current IN
    K # 0 =>
      /\ \A k \in 1..Len(sent) : k > skipLog[j].ns => sent[k].id # K
      /\ \A i \in Range(processedLog) : i > K => i \in SentIds

\* on_paused(True) and no on_paused(False) after the n-th notification
NoUnpauseAfter(n) == \A m \in (n + 1)..Len(pausedLog) : pausedLog[m]

\* C6: after a submission of R failed, on_error was notified for R and R stays
\* the request in process; the consumer then pauses the queue (paused is set
\* and on_paused(True) is notified), and until set_paused(False) is called after
\* that, the queue stays paused and the consumer stays before or in its wait
\* for unpause with R: R is not submitted again and no other request is popped.
C6_FailurePausesAndKeepsRequest ==
  (Len(sent) > 0 /\ ~Last(sent).ok) =>
    /\ Len(errorLog) = Failures
    /\ Last(errorLog) = Last(sent).id
    /\ cpc = "error_pause" =>
         /\ InFlight = Last(sent).id
         /\ Len(retryLog) = Failures - 1
    /\ cpc # "error_pause" =>
         /\ Len(retryLog) = Failures
         /\ Last(retryLog).id = Last(sent).id
         /\ Last(retryLog).np \in 1..Len(pausedLog)
         /\ pausedLog[Last(retryLog).np]
         /\ NoUnpauseAfter(Last(retryLog).np) =>
              /\ paused
              /\ InFlight = Last(sent).id
              /\ cpc \in {"pause_acquire", "check_paused", "unpaused_wait"}
              /\ cpc = "unpaused_wait" => Consumer \in unpaused

\* The submission of request 1 failed; the consumer waits for unpause with it
\* while request 2 is in the queue.
C6_Witness ==
  /\ Len(sent) > 0 /\ ~Last(sent).ok
  /\ cpc = "unpaused_wait" /\ Consumer \in unpaused
  /\ request_data.id = 1
  /\ Len(queue) >= 1

\* C7: every popped request gets on_request_processed exactly once and, when it
\* has a callback, the callback exactly once, and only once its retry loop has
\* ended, by a successful submission or by a skip: none while the request is
\* still in process, whatever number of attempts failed before.
C7_ProcessedOnceAfterLoop ==
  /\ Range(processedLog) \subseteq Range(popped)
  /\ Range(callbackLog) \subseteq Range(processedLog)
  /\ \A r \in Range(popped) :
       /\ Count(processedLog, r) = IF InFlight = r THEN 0 ELSE 1
       /\ Count(callbackLog, r) =
            IF enqueued[r].callback /\ request_data.id # r THEN 1 ELSE 0
       /\ r \in Range(processedLog) =>
            \/ r \in Range(skipped) /\ r \notin SentOkIds
            \/ /\ r \notin Range(skipped)
               /\ Count([k \in 1..Len(sent) |-> IF sent[k].ok THEN sent[k].id ELSE 0], r) = 1
               /\ \A k \in 1..Len(sent) :
                    (sent[k].id = r /\ ~sent[k].ok) => \E m \in (k + 1)..Len(sent) : sent[m].id = r

\* A request with a callback failed once, then succeeded, and was reported; and
\* another request was skipped and reported.
C7_Witness ==
  /\ \E r \in Range(callbackLog) : r \in Range(errorLog)
  /\ \E r \in Range(processedLog) : r \in Range(skipped)

\* The consumer is blocked while the queue is paused: waiting for unpause with a
\* request in process, or waiting for a request.
ConsumerBlockedWhilePaused ==
  /\ paused
  /\ \/ cpc = "unpaused_wait" /\ Consumer \in unpaused
     \/ cpc = "not_empty_wait" /\ Consumer \in not_empty

\* C8: while the queue is paused and the consumer is blocked, the consumer does
\* not hold the queue lock, and every producer inside add_request can take its
\* next step, or waits only for another producer that can: add_request appends.
C8_PauseDoesNotBlockProducers ==
  ConsumerBlockedWhilePaused =>
    /\ lock # Consumer
    /\ \A p \in Producers :
         apc[p] # "idle" =>
           \/ ENABLED ProducerStep(p)
           \/ \E q \in Producers \ {p} : lock = q /\ ENABLED AddAppend(q)

\* The consumer waits for unpause with request 1 while a producer is appending
\* the next request.
C8_Witness ==
  /\ paused
  /\ cpc = "unpaused_wait" /\ Consumer \in unpaused
  /\ \E p \in Producers : apc[p] = "append"
  /\ Len(enqueued) >= 1

\* parse_line has returned or raised for line n
Dispatched(n) ==
  n < Len(lines) \/ (n = Len(lines) /\ lpc \notin {"can_parse", "parse", "add_request"})
RaisedFor(n) == {k \in 1..Len(raised) : raised[k].line = n}
EnqueuedFor(n) == {k \in 1..Len(enqueued) : enqueued[k].data.body = n}
\* the first parser whose can_parse is truthy for l
Claiming(l) == CHOOSE i \in l.can : \A j \in l.can : i <= j

\* C9: for a line that no parser's can_parse accepts, parse_line raises one
\* ParseError, which carries no parser name; neither on_line_parsed nor
\* on_line_parse_failed is notified and nothing is added to the queue.
C9_UnmatchedLineRaisesUnnamed ==
  \A n \in 1..Len(lines) :
    lines[n].can = {} =>
      /\ n \notin Range(parsedLog)
      /\ n \notin Range(failedLog)
      /\ EnqueuedFor(n) = {}
      /\ \A k \in RaisedFor(n) : raised[k].error.parser_name = "None"
      /\ Dispatched(n) => Cardinality(RaisedFor(n)) = 1
      /\ ~Dispatched(n) => RaisedFor(n) = {}

\* parse_line has raised for a line that no parser accepts.
C9_Witness ==
  \E n \in 1..Len(lines) :
    /\ lines[n].can = {}
    /\ Dispatched(n)
    /\ RaisedFor(n) # {}

\* C10: for a line claimed by parser P, the first whose can_parse is truthy,
\* whose parse raises a ParseError: on_line_parse_failed is notified once,
\* on_line_parsed is not, nothing is enqueued, and the one error that leaves
\* parse_line has P's class name as parser_name.
C10_ParseFailureNamesParser ==
  \A n \in 1..Len(lines) :
    (lines[n].can # {} /\ lines[n].result = "raise") =>
      /\ n \notin Range(parsedLog)
      /\ EnqueuedFor(n) = {}
      /\ \A k \in RaisedFor(n) :
           raised[k].error.parser_name = PARSERS[Claiming(lines[n])]
      /\ Dispatched(n) =>
           /\ Count(failedLog, n) = 1
           /\ Cardinality(RaisedFor(n)) = 1
      /\ ~Dispatched(n) => (n \notin Range(failedLog) /\ RaisedFor(n) = {})

\* parse_line has raised for a line that the first parser refuses and the
\* second and third accept, and whose parse fails.
C10_Witness ==
  \E n \in 1..Len(lines) :
    /\ lines[n].can = {2, 3}
    /\ lines[n].result = "raise"
    /\ Dispatched(n)
    /\ RaisedFor(n) # {}

\* the parsers whose can_parse, and whose parse, was called for line n, in call order
CanCallsFor(n) == SelectSeq(canCalls, LAMBDA c : c.line = n)
ParseCallsFor(n) == SelectSeq(parseCalls, LAMBDA c : c.line = n)

\* C11: for every line, can_parse is called on GPSParser, TelemetryParser,
\* KundtParser in this order and no further than the first parser that accepts
\* the line; parse is called on that parser only, once, and on none when no
\* parser accepts, whether parse returns or raises.
C11_FirstMatchOnly ==
  \A n \in 1..Len(lines) :
    LET cs == CanCallsFor(n)
        ps == ParseCallsFor(n)
        l == lines[n]
        stop == IF l.can = {} THEN Len(PARSERS) ELSE Claiming(l)
    IN /\ Len(cs) <= stop
       /\ \A k \in 1..Len(cs) :
            PARSERS[cs[k].parser] = <<"GPSParser", "TelemetryParser", "KundtParser">>[k]
       /\ Len(ps) <= 1
       /\ \A k \in 1..Len(ps) :
            /\ l.can # {}
            /\ ps[k].parser = Claiming(l)
            /\ Len(cs) = stop
       /\ Dispatched(n) =>
            /\ Len(cs) = stop
            /\ Len(ps) = IF l.can = {} THEN 0 ELSE 1

\* parse_line is done with a line that the first parser refuses and the second
\* and the third accept, and with a line of that kind whose parse raised.
C11_Witness ==
  /\ \E n \in 1..Len(lines) :
       lines[n].can = {2, 3} /\ lines[n].result = "data" /\ Dispatched(n)
  /\ \E n \in 1..Len(lines) :
       lines[n].can = {2, 3} /\ lines[n].result = "raise" /\ Dispatched(n)

\* C12: a line whose claiming parser returns a non-empty record puts exactly
\* one request in the queue, with that parser's class name as module and that
\* parser's url; any other line (unmatched, malformed, empty record) puts none;
\* and the requests are in the queue in the order of their lines.
C12_OneRequestPerRecord ==
  /\ \A n \in 1..Len(lines) :
       LET l == lines[n]
           wanted == l.can # {} /\ l.result = "data"
       IN /\ Cardinality(EnqueuedFor(n)) <= IF wanted THEN 1 ELSE 0
          /\ (Dispatched(n) /\ wanted) => Cardinality(EnqueuedFor(n)) = 1
          /\ \A k \in EnqueuedFor(n) :
               /\ enqueued[k].module = PARSERS[Claiming(l)]
               /\ enqueued[k].url = ParserUrl(Claiming(l))
  /\ \A k \in 1..Len(enqueued) : enqueued[k].data.body \in 1..Len(lines)
  /\ \A j, k \in 1..Len(enqueued) :
       j < k => enqueued[j].data.body < enqueued[k].data.body

\* A line with an empty record, then a line with a record that was enqueued.
C12_Witness ==
  /\ Len(lines) >= 2
  /\ lines[1].can # {} /\ lines[1].result = "empty"
  /\ lines[2].can = {3} /\ lines[2].result = "data"
  /\ Dispatched(2)
  /\ Len(enqueued) = 1

\* C20: on_request_added of a request is emitted before on_request_processing
\* and on_request_processed of that request, and the ids handed to
\* on_request_added are increasing.
C20_AddedFirstInIdOrder ==
  /\ \A r \in Range(processingLog) \cup Range(processedLog) : r \in Range(addedLog)
  /\ \A j, k \in 1..Len(addedLog) : j < k => addedLog[j] < addedLog[k]

\* the non-empty lines of f that are completed by their line terminator, in
\* order, without the terminator; cur is the line being collected
RECURSIVE TerminatedLines(_, _)
TerminatedLines(f, cur) ==
  IF f = <<>> THEN <<>>
  ELSE IF Head(f) = EOL
  THEN (IF cur = <<>> THEN <<>> ELSE <<cur>>) \o TerminatedLines(Tail(f), <<>>)
  ELSE TerminatedLines(Tail(f), Append(cur, Head(f)))

\* C13: what a worker has passed to parse_line is, at every moment, the
\* beginning of the sequence of non-empty terminated lines of the file it
\* follows: each such line once, in order, stripped, and nothing else.
C13_DispatchesTerminatedLines ==
  \A i \in 1..Len(workers) :
    LET d == workers[i].dispatched
        t == TerminatedLines(file, <<>>)
    IN /\ Len(d) <= Len(t)
       /\ \A k \in 1..Len(d) : d[k].text = t[k]

\* worker i has opened its file and terminate() has not reached it
Following(i) ==
  i <= Len(workers) /\ workers[i].opened /\ ~workers[i].is_terminated

\* worker i has read its file to the end
ReadAll(i) == i <= Len(workers) /\ workers[i].pos = Len(file)

\* parse_line raised a ParseError for the k-th line worker i dispatched, and
\* has left the except block
RaisedAt(i, k) ==
  /\ k <= Len(workers[i].dispatched)
  /\ workers[i].dispatched[k].text \in BadLines
  /\ (k = Len(workers[i].dispatched) => workers[i].pc # "parse_line")

\* C14: a worker for whose line parse_line raised a ParseError is still in its
\* loop as long as terminate() has not reached it, and a worker that is never
\* told to stop reads, and so dispatches, everything that is appended to the
\* file, whatever was raised for earlier lines.
C14_BadLineDoesNotHalt ==
  /\ [](\A i \in 1..Len(workers) :
          (Following(i) /\ \E k \in 1..MaxFileLen : RaisedAt(i, k))
            => workers[i].pc \in {"loop", "readline", "sleep", "parse_line"})
  /\ \A i \in 1..MaxStarts : (<>[]Following(i)) => <>[]ReadAll(i)

\* parse_line raised for the first line of a worker that was not told to stop,
\* and the worker has dispatched the next line.
C14_Witness ==
  \E i \in 1..Len(workers) :
    /\ Following(i)
    /\ RaisedAt(i, 1)
    /\ Len(workers[i].dispatched) >= 2

\* the workers whose thread is running
Running == {i \in 1..Len(workers) : isRunning(workers[i])}

\* C15: at most one worker is running; a ParserManager.parse_file call made
\* while a worker is running ends with RuntimeError, creates no worker and
\* leaves the manager, the running worker and the pending signals as they were.
C15_BusyStartRefused ==
  /\ [](/\ Cardinality(Running) <= 1
        /\ last_start.busy => (last_start.raised = "RuntimeError"
                               /\ last_start.worker = 0))
  /\ [][(is_running /\ \E path \in Paths : ManagerParseFile(path))
          => /\ last_start'.busy
             /\ UNCHANGED <<worker, workers, terminated_by_user, finished,
                            causeLog>>]_vars

\* parse_file has just been refused while the worker is following the file.
C15_Witness ==
  /\ last_start.busy
  /\ Running = {worker}
  /\ workers[worker].pc = "readline"

\* C16: a ParserManager.parse_file call for a path at which there is no file
\* raises FileNotFoundError to its caller and creates no worker, and no worker
\* that was started fails to open its file.
C16_MissingFileRefused ==
  /\ (last_start.path = "missing" /\ ~last_start.busy)
       => (last_start.raised = "FileNotFoundError" /\ last_start.worker = 0)
  /\ \A i \in 1..Len(workers) : workers[i].pc # "start" => workers[i].opened

\* C17: the cause logged for a finished worker is "user" exactly when
\* terminate() set that worker's stop flag.
C17_CauseMatchesStop ==
  \A k \in 1..Len(causeLog) :
    causeLog[k].cause = "user" <=> workers[causeLog[k].worker].is_terminated

\* C18: a worker that opened its file and whose parse_file has returned had its
\* stop flag set by mark_terminated; a readline that returns nothing is followed
\* by the sleep and the next loop test, at the same offset.
C18_ReturnsOnlyWhenTerminated ==
  /\ [](\A i \in 1..Len(workers) :
          (workers[i].opened /\ workers[i].pc = "finished")
            => workers[i].is_terminated)
  /\ [][\A i \in 1..Len(workers) :
          (WorkerReadLine(i) /\ readline(file, workers[i].pos) = <<>>)
            => (workers'[i].pc = "sleep" /\ workers'[i].pos = workers[i].pos)]_vars
  /\ [][\A i \in 1..Len(workers) :
          WorkerSleep(i) => workers'[i].pc = "loop"]_vars

\* One worker has returned after terminate(); the next one found nothing to
\* read at the end of the file and sleeps.
C18_Witness ==
  /\ Len(workers) = 2
  /\ workers[1].opened /\ workers[1].pc = "finished" /\ workers[1].is_terminated
  /\ workers[2].pc = "sleep" /\ workers[2].pos = Len(file) /\ Len(file) > 0
  /\ ~workers[2].is_terminated

\* the dispatches worker i began after its stop flag was set
Late(i) == {k \in 1..Len(workers[i].dispatched) : workers[i].dispatched[k].late}

\* the workers whose termination the manager has reported
Reported == {causeLog[k].worker : k \in 1..Len(causeLog)}

\* terminate() called while no worker is running changes nothing
C19_IdleTerminateIsNoOp ==
  [][(~is_running /\ ManagerTerminate) => UNCHANGED vars]_vars

\* a worker whose stop flag is set exits and its termination is reported
C19_StoppedWorkerExits ==
  \A i \in 1..MaxStarts :
    (i <= Len(workers) /\ workers[i].is_terminated) ~> (i \in Reported)

\* C19 as stated: a worker whose stop flag is set exits and is reported
\* terminated, it begins no dispatch once the flag is set, and terminate()
\* with no running worker changes nothing.
C19_NoDispatchAfterStop ==
  /\ [](\A i \in 1..Len(workers) : Late(i) = {})
  /\ C19_StoppedWorkerExits
  /\ C19_IdleTerminateIsNoOp

\* C19, amended: a worker whose stop flag is set exits and is reported
\* terminated, it begins at most one dispatch once the flag is set (that of the
\* iteration whose loop test had passed already), and terminate() with no
\* running worker changes nothing.
C19_AtMostOneDispatchAfterStop ==
  /\ [](\A i \in 1..Len(workers) : Cardinality(Late(i)) <= 1)
  /\ C19_StoppedWorkerExits
  /\ C19_IdleTerminateIsNoOp

\* A worker stopped by terminate() has been reported terminated after it
\* dispatched one line whose readline followed the setting of the flag.
C19_Witness ==
  \E i \in 1..Len(workers) :
    /\ workers[i].is_terminated
    /\ i \in Reported
    /\ Cardinality(Late(i)) = 1

\* every step of the consumer thread: QtSenderWorker.run's loop over
\* process_request (lines 217-219)
ConsumerStep ==
  \/ ConsumerLiveStep
  \/ ProcSkip \/ ProcCreateFail \/ ProcErrorPause

\* the consumer sleeps in not_empty.wait() and the queue is empty
BlockedOnEmpty ==
  cpc = "not_empty_wait" /\ Consumer \in not_empty /\ queue = <<>>

\* the consumer sleeps in unpaused.wait() and the queue is paused
BlockedOnPaused ==
  cpc = "unpaused_wait" /\ Consumer \in unpaused /\ paused

\* C21: no thread holds the queue lock and the pause lock together, and the
\* consumer enters its own set_paused(True) without the queue lock; the consumer
\* can take a step, or waits for the queue lock held by a producer that can
\* take its step, or sleeps on the empty queue, or sleeps on the paused flag;
\* and a consumer that has not been notified sleeps on a condition that still
\* holds: an append or an unpause that ended its condition has woken it.
C21_NoDeadlockNoLostWakeup ==
  /\ \A t \in Callers \cup {Consumer} : ~(lock = t /\ pause_lock = t)
  /\ cpc = "error_pause" => lock # Consumer
  /\ \/ ENABLED ConsumerStep
     \/ \E p \in Callers : lock = p /\ ENABLED AddAppend(p)
     \/ BlockedOnEmpty
     \/ BlockedOnPaused
  /\ Consumer \in not_empty => (cpc = "not_empty_wait" /\ queue = <<>>)
  /\ Consumer \in unpaused => (cpc = "unpaused_wait" /\ paused)

\* The consumer, woken from the empty queue and unpaused once before, sleeps
\* on the paused flag while a producer holds the queue lock.
C21_Witness ==
  /\ BlockedOnPaused
  /\ lock \in Producers
  /\ \E k \in 1..Len(pausedLog) : ~pausedLog[k]
  /\ Len(popped) >= 1
====
